---------------------------- MODULE Spec2Model ----------------------------
(***************************************************************************)
(* NL2SQL agent: natural-language question -> model text -> extracted SQL  *)
(* -> keyword validator -> bounded execution on SQLite.                    *)
(*                                                                         *)
(* Python str values that the program inspects character by character are  *)
(* sequences of one-character strings; values it only carries around       *)
(* (questions, exception messages) are TLA+ strings.                       *)
(***************************************************************************)
EXTENDS Integers, Sequences, FiniteSets, TLC

VARIABLES
    agent,        \* NL2SQLAgent instance: [state, schema, additional_context]
    open_conns,   \* ids of the sqlite3 connections that are currently open
    trace,        \* calls made by the most recent top-level call, in order
    call          \* the most recent top-level call: [op, ..., ret]

vars == <<agent, open_conns, trace, call>>

(***************************************************************************)
(* Bounds of the model.                                                    *)
(***************************************************************************)
\* lines per model response handed to the extractor
MaxLines == 3
\* body fragments per string handed to the validator
MaxMid == 1
\* largest max_rows passed to execute_query directly
MaxRows == 3
\* largest character budget tried for the context file
MaxBudget == 6
\* lines per context file
MaxCtxLines == 3
\* connections that may be open at once before the session model stops
MaxConns == 2
\* rows in the largest result handed to format_results
MaxData == 12

(***************************************************************************)
(* Python str primitives.                                                  *)
(***************************************************************************)
\* The Python value None; no str of the model has a multi-character element.
None == <<"None">>

\* str.isspace for the characters of the model's alphabet
IsSpace(c) == c \in {" ", "\n", "\t", "\r"}

UpperMap ==
    [a |-> "A", b |-> "B", c |-> "C", d |-> "D", e |-> "E", f |-> "F",
     g |-> "G", h |-> "H", i |-> "I", j |-> "J", k |-> "K", l |-> "L",
     m |-> "M", n |-> "N", o |-> "O", p |-> "P", q |-> "Q", r |-> "R",
     s |-> "S", t |-> "T", u |-> "U", v |-> "V", w |-> "W", x |-> "X",
     y |-> "Y", z |-> "Z"]

LowerCase == DOMAIN UpperMap

\* str.upper
Upper(s) ==
    [i \in 1..Len(s) |-> IF s[i] \in LowerCase THEN UpperMap[s[i]] ELSE s[i]]

RECURSIVE SkipSpace(_, _)
SkipSpace(s, i) ==
    IF i > Len(s) \/ ~IsSpace(s[i]) THEN i ELSE SkipSpace(s, i + 1)

RECURSIVE SkipSpaceBack(_, _)
SkipSpaceBack(s, i) ==
    IF i < 1 \/ ~IsSpace(s[i]) THEN i ELSE SkipSpaceBack(s, i - 1)

\* str.strip()
Strip(s) == SubSeq(s, SkipSpace(s, 1), SkipSpaceBack(s, Len(s)))

RECURSIVE SkipCharBack(_, _, _)
SkipCharBack(s, c, i) ==
    IF i < 1 \/ s[i] # c THEN i ELSE SkipCharBack(s, c, i - 1)

\* str.rstrip(c) for a one-character c
RStripChar(s, c) == SubSeq(s, 1, SkipCharBack(s, c, Len(s)))

\* s[i:i+len(p)] == p
MatchAt(s, i, p) ==
    /\ i + Len(p) - 1 <= Len(s)
    /\ \A j \in 1..Len(p) : s[i + j - 1] = p[j]

\* str.startswith
StartsWith(s, p) == MatchAt(s, 1, p)

\* p in s
Contains(s, p) == \E i \in 1..(Len(s) - Len(p) + 1) : MatchAt(s, i, p)

RECURSIVE RemoveFrom(_, _, _)
RemoveFrom(s, old, i) ==
    IF i > Len(s) THEN << >>
    ELSE IF MatchAt(s, i, old) THEN RemoveFrom(s, old, i + Len(old))
    ELSE <<s[i]>> \o RemoveFrom(s, old, i + 1)

\* str.replace(old, ""): leftmost non-overlapping occurrences removed
Replace(s, old) == RemoveFrom(s, old, 1)

RECURSIVE SplitAt(_, _, _, _)
SplitAt(s, c, start, i) ==
    IF i > Len(s) THEN <<SubSeq(s, start, Len(s))>>
    ELSE IF s[i] = c THEN <<SubSeq(s, start, i - 1)>> \o SplitAt(s, c, i + 1, i + 1)
    ELSE SplitAt(s, c, start, i + 1)

\* str.split(c) for a one-character separator: "" gives [""]
Split(s, c) == SplitAt(s, c, 1, 1)

RECURSIVE JoinFrom(_, _, _)
JoinFrom(parts, sep, i) ==
    IF i > Len(parts) THEN << >>
    ELSE IF i = Len(parts) THEN parts[i]
    ELSE parts[i] \o sep \o JoinFrom(parts, sep, i + 1)

\* sep.join(parts)
Join(parts, sep) == JoinFrom(parts, sep, 1)

\* str.splitlines(): no empty last line after a final line break, "" gives []
SplitLines(s) ==
    LET parts == Split(s, "\n")
    IN  IF parts[Len(parts)] = << >> THEN SubSeq(parts, 1, Len(parts) - 1) ELSE parts

\* s[:n] as Python slices it, negative n counting from the end
SliceTo(s, n) ==
    IF n >= 0 THEN SubSeq(s, 1, IF n < Len(s) THEN n ELSE Len(s))
    ELSE SubSeq(s, 1, IF Len(s) + n > 0 THEN Len(s) + n ELSE 0)

(***************************************************************************)
(* String literals of the program and of the inputs tried.                 *)
(***************************************************************************)
\* the character U+0060 (grave accent), which a TLA+ string literal cannot hold
Backtick == "^"

kwSELECT == <<"S","E","L","E","C","T">>
kwWITH == <<"W","I","T","H">>
kwINSERT == <<"I","N","S","E","R","T">>
kwUPDATE == <<"U","P","D","A","T","E">>
kwDELETE == <<"D","E","L","E","T","E">>
kwDROP == <<"D","R","O","P">>
kwALTER == <<"A","L","T","E","R">>
kwCREATE == <<"C","R","E","A","T","E">>
kwPRAGMA == <<"P","R","A","G","M","A">>
kwATTACH == <<"A","T","T","A","C","H">>
kwDETACH == <<"D","E","T","A","C","H">>
FenceSql == <<Backtick,Backtick,Backtick,"s","q","l">>
Fence == <<Backtick,Backtick,Backtick>>
Semi == <<";">>
Space == <<" ">>
Newline == <<"\n">>
vLead2 == <<" "," ">>
vLead3 == <<"\n","\t">>
vHead1 == <<"S","E","L","E","C","T">>
vHead2 == <<"s","e","l","e","c","t">>
vHead3 == <<"S","e","L","e","C","t">>
vHead4 == <<"S","E","L","E","C">>
vHead5 == <<"S","H","O","W">>
vHead6 == <<"D","R","O","P">>
vMid1 == <<" ","*"," ","F","R","O","M"," ","u","s","e","r","s">>
vMid2 == <<" ","c","r","e","a","t","e","d","_","a","t"," ","F","R","O","M"," ","t">>
vMid3 == <<" ","n","a","m","e"," ","F","R","O","M"," ","t"," ","W","H","E","R","E"," ","a"," ","="," ","'","d","r","o","p","'">>
vMid4 == <<" ","1",";"," ","I","N","S","E","R","T"," ","I","N","T","O"," ","t">>
vMid5 == <<" ","1",";"," ","u","p","d","a","t","e"," ","t">>
vMid6 == <<" ","1",";"," ","D","e","l","e","t","e"," ","F","R","O","M"," ","t">>
vMid7 == <<" ","1",";"," ","A","L","T","E","R"," ","T","A","B","L","E"," ","t">>
vMid8 == <<" ","1",";"," ","p","r","a","g","m","a"," ","x">>
vMid9 == <<" ","1",";"," ","A","T","T","A","C","H"," ","d">>
vMid10 == <<" ","1",";"," ","d","e","t","a","c","h"," ","d">>
vMid11 == <<" ","i","d"," ","F","R","O","M"," ","c","o","u","r","s","e","s">>
vMid12 == <<" ","T","A","B","L","E"," ","u","s","e","r","s">>
vMid13 == <<" ","1"," ","-","-"," ","d","r","o"," ","p">>
vTail2 == <<" "," ">>
vTail3 == <<";">>
tq1 == <<"S","E","L","E","C","T"," ","*"," ","F","R","O","M"," ","u","s","e","r","s">>
tq2 == <<" "," ","S","E","L","E","C","T"," ","i","d"," ","F","R","O","M"," ","c","o","u","r","s","e","s"," "," ">>
tq3 == <<"I","N","S","E","R","T"," ","I","N","T","O"," ","u","s","e","r","s"," ","V","A","L","U","E","S"," ","(","1",","," ","'","t","e","s","t","'",")">>
tq4 == <<"U","P","D","A","T","E"," ","u","s","e","r","s"," ","S","E","T"," ","n","a","m","e","=","'","t","e","s","t","'">>
tq5 == <<"D","E","L","E","T","E"," ","F","R","O","M"," ","u","s","e","r","s">>
tq6 == <<"D","R","O","P"," ","T","A","B","L","E"," ","u","s","e","r","s">>
tq7 == <<"A","L","T","E","R"," ","T","A","B","L","E"," ","u","s","e","r","s"," ","A","D","D"," ","C","O","L","U","M","N"," ","a","g","e"," ","I","N","T">>
tq8 == <<"C","R","E","A","T","E"," ","T","A","B","L","E"," ","n","e","w","_","t","a","b","l","e"," ","(","i","d"," ","I","N","T",")">>
tq9 == <<"S","H","O","W"," ","T","A","B","L","E","S">>
tq10 == <<"P","R","A","G","M","A"," ","t","a","b","l","e","_","i","n","f","o","(","u","s","e","r","s",")">>
rl1 == <<Backtick,Backtick,Backtick,"s","q","l">>
rl2 == <<Backtick,Backtick,Backtick>>
rl5 == <<"S","E","L","E","C","T"," ","*"," ","F","R","O","M"," ","u","s","e","r","s"," ","L","I","M","I","T"," ","1","0">>
rl6 == <<"s","e","l","e","c","t"," ","i","d"," ","f","r","o","m"," ","t"," ","l","i","m","i","t"," ","5",";">>
rl7 == <<"W","I","T","H"," ","a"," ","A","S"," ","(","S","E","L","E","C","T"," ","1",")"," ","S","E","L","E","C","T"," ","*"," ","F","R","O","M"," ","a">>
rl8 == <<"S","E","L","E","C","T"," ","1",";"," ","D","R","O","P"," ","T","A","B","L","E"," ","u","s","e","r","s">>
rl9 == <<"S","u","r","e",";"," ","s","e","e"," ","b","e","l","o","w">>
rl10 == <<" "," ","F","R","O","M"," ","t"," ","L","I","M","I","T"," ","3"," ">>
rl11 == <<Backtick,Backtick,Backtick,"s","q","l"," ","S","E","L","E","C","T"," ","1"," ","L","I","M","I","T"," ","1",Backtick,Backtick,Backtick>>
fx1 == <<"H","e","r","e","'","s"," ","t","h","e"," ","S","Q","L"," ","q","u","e","r","y",":","\n","\n","S","E","L","E","C","T"," ","*"," ","F","R","O","M"," ","u","s","e","r","s"," ","L","I","M","I","T"," ","1","0">>
fx2 == <<"I","'","m"," ","s","o","r","r","y",","," ","I"," ","c","a","n","n","o","t"," ","g","e","n","e","r","a","t","e"," ","S","Q","L"," ","f","o","r"," ","t","h","a","t"," ","q","u","e","r","y",".">>
fx3 == <<"D","R","O","P"," ","T","A","B","L","E"," ","u","s","e","r","s",";"," ","S","E","L","E","C","T"," ","1">>
fx4 == <<Backtick,Backtick,Backtick,"s","q","l","\n","S","E","L","E","C","T"," ","*"," ","F","R","O","M"," ","u","s","e","r","s"," ","L","I","M","I","T"," ","1","0","\n",Backtick,Backtick,Backtick>>
fx5 == <<"I","'","m"," ","s","o","r","r","y",","," ","I"," ","c","a","n","n","o","t"," ","h","e","l","p"," ","w","i","t","h"," ","t","h","a","t",".">>
pre2 == <<"H","e","r","e"," ","i","s"," ","t","h","e"," ","q","u","e","r","y",":","\n">>
pre3 == <<"\n">>
pre4 == <<"W","i","t","h"," ","l","u","c","k",":","\n">>
pre5 == <<"Q","u","e","r","y",":"," ">>
st1 == <<"S","E","L","E","C","T"," ","*"," ","F","R","O","M"," ","u","s","e","r","s"," ","L","I","M","I","T"," ","1","0">>
st2 == <<"s","e","l","e","c","t"," ","i","d"," ","f","r","o","m"," ","t"," ","l","i","m","i","t"," ","5">>
st3 == <<"S","E","L","E","C","T"," ","i","d","\n"," "," ","F","R","O","M"," ","t","\n","L","I","M","I","T"," ","3">>
st4 == <<"\n"," "," ","S","E","L","E","C","T"," ","1"," ","L","I","M","I","T"," ","1"," "," ","\n">>
st5 == <<"\n","S","E","L","E","C","T"," ","a"," ","F","R","O","M"," ","t",";","\n">>
post2 == <<"\n">>
post3 == <<"\n","T","h","i","s"," ","l","i","s","t","s"," ","u","s","e","r","s",".">>
post4 == <<"\n",Backtick,Backtick,Backtick,"s","q","l","\n","S","E","L","E","C","T"," ","2"," ","L","I","M","I","T"," ","2","\n",Backtick,Backtick,Backtick>>
eq1 == <<"S","E","L","E","C","T"," ","1",";"," ","D","R","O","P"," ","T","A","B","L","E"," ","u","s","e","r","s">>
eq2 == <<"S","E","L","E","C","T"," ","*"," ","F","R","O","M"," ","u","s","e","r","s"," ","L","I","M","I","T"," ","1","0">>
eq3 == <<" "," ","s","e","l","e","c","t"," ","i","d"," ","f","r","o","m"," ","t"," ",";"," ">>
eq4 == <<"S","E","L","E","C","T"," ","1",";",";">>
eq5 == <<"D","R","O","P"," ","T","A","B","L","E"," ","u","s","e","r","s",";"," ","S","E","L","E","C","T"," ","1">>
eq6 == <<"S","E","L","E","C","T"," ","a"," ",";"," ",";"," ","b">>
eq7 == <<"S","E","L","E","C","T"," ","1"," ",";">>
eq8 == << >>
cl1 == <<"#"," ","i","g","n","o","r","e"," ","m","e">>
cl2 == <<"P","r","e","f","e","r"," ","a","c","t","i","v","e"," ","u","s","e","r","s"," ","o","n","l","y",".">>
cl3 == <<"#"," ","a","l","s","o"," ","i","g","n","o","r","e">>
cl5 == <<"a","b">>
cl6 == <<" ","c"," ","d"," ">>
cl7 == <<" "," ","#"," ","x">>
cl8 == <<"e","#","f">>
limitKw == <<" ","L","I","M","I","T"," ">>
colId == <<"i","d">>
colName == <<"n","a","m","e">>
valJohn == <<"J","o","h","n">>
valJane == <<"J","a","n","e">>
valTwoLines == <<"a","\n","b">>
errQueryFailed == <<"Q","u","e","r","y"," ","f","a","i","l","e","d">>
errNoSuchTable == <<"n","o"," ","s","u","c","h"," ","t","a","b","l","e",":"," ","u","s","e","r","s">>
errValidation == <<"G","e","n","e","r","a","t","e","d"," ","q","u","e","r","y"," ","f","a","i","l","e","d"," ","v","a","l","i","d","a","t","i","o","n">>
errExtract == <<"F","a","i","l","e","d"," ","t","o"," ","g","e","n","e","r","a","t","e"," ","v","a","l","i","d"," ","S","Q","L"," ","q","u","e","r","y">>
errApi == <<"A","P","I"," ","e","r","r","o","r",":"," ","R","e","q","u","e","s","t"," ","t","i","m","e","d"," ","o","u","t",".">>
fq1 == <<"S","E","L","E","C","T"," ","i","d",","," ","n","a","m","e"," ","F","R","O","M"," ","u","s","e","r","s">>
nlq1 == <<"l","i","s","t"," ","a","l","l"," ","u","s","e","r","s">>

(***************************************************************************)
(* DatabaseHandler.validate_query                                          *)
(***************************************************************************)
\* dangerous_keywords with CREATE forgotten
dangerous_keywords_without_create ==
    <<kwINSERT, kwUPDATE, kwDELETE, kwDROP, kwALTER, kwPRAGMA, kwATTACH, kwDETACH>>

dangerous_keywords ==
    <<kwINSERT, kwUPDATE, kwDELETE, kwDROP, kwALTER, kwCREATE, kwPRAGMA,
      kwATTACH, kwDETACH>>

\* the for loop over dangerous_keywords: FALSE at the first keyword found
RECURSIVE ScanKeywords(_, _, _)
ScanKeywords(query_upper, keywords, i) ==
    IF i > Len(keywords) THEN TRUE
    ELSE IF Contains(query_upper, keywords[i]) THEN FALSE
    ELSE ScanKeywords(query_upper, keywords, i + 1)

validate_query(query) ==
    LET query_upper == Upper(Strip(query))
    IN  IF ~StartsWith(query_upper, kwSELECT) THEN FALSE
        ELSE ScanKeywords(query_upper, dangerous_keywords, 1)

(***************************************************************************)
(* The SQLite engine, seen from the handler: what connecting and running   *)
(* one statement can do.  A rows outcome returns rows 1..n in the        *)
(* engine's order; db_error is sqlite3.Error raised by execute or fetch  *)
(* on an open connection; other_error is any other Exception raised      *)
(* there; connect_error is sqlite3.Error raised by sqlite3.connect.      *)
(* finalized: whether the interpreter has already finalized a connection   *)
(* object that the handler dropped without close() when the call returns   *)
(* (reference counting does, a tracing collector need not).                *)
(***************************************************************************)
EngineRows(n) == [i \in 1..n |-> [id |-> i]]

ErrorOutcomes ==
    {[kind |-> "connect_error", msg |-> "unable to open database file", finalized |-> TRUE]}
    \cup {[kind |-> "db_error", msg |-> m, finalized |-> f] :
            m \in {"no such table: users", "database is locked"}, f \in BOOLEAN}
    \cup {[kind |-> "other_error", msg |-> "You can only execute one statement at a time.",
           finalized |-> f] : f \in BOOLEAN}

RowOutcomes(counts) == {[kind |-> "rows", n |-> k] : k \in counts}

\* DatabaseHandler.get_connection: the events of one attempt to connect
get_connection(db) ==
    IF db.kind = "connect_error" THEN <<[op |-> "connect_failed"]>>
    ELSE <<[op |-> "connect"]>>

\* FirstStatementOf taking the last statement instead of the first
LastStatementOf(query) ==
    LET q     == RStripChar(Strip(query), ";")
        parts == Split(q, ";")
    IN  IF Contains(q, Semi) THEN Strip(parts[Len(parts)]) ELSE q

\* lines 93-96: the single statement that is handed to the engine
FirstStatementOf(query) ==
    LET q == RStripChar(Strip(query), ";")
    IN  IF Contains(q, Semi) THEN Strip(Split(q, ";")[1]) ELSE q

\* LimitRows with the slice one row too long
LimitRowsOneMore(rows, max_rows) ==
    LET limited == IF Len(rows) > max_rows THEN SliceTo(rows, max_rows + 1) ELSE rows
    IN  [i \in 1..Len(limited) |-> [id |-> limited[i].id]]

\* lines 104-112: rows[:max_rows] when len(rows) > max_rows, then dict(row)
LimitRows(rows, max_rows) ==
    LET limited == IF Len(rows) > max_rows THEN SliceTo(rows, max_rows) ELSE rows
    IN  [i \in 1..Len(limited) |-> [id |-> limited[i].id]]

\* DatabaseHandler.execute_query: the dictionary returned, the calls made on
\* the engine, and whether the connection it opened is still open on return
execute_query(query, max_rows, db) ==
    IF ~StartsWith(Upper(Strip(query)), kwSELECT)
    THEN [result |-> [success |-> FALSE, error |-> "Only SELECT queries are allowed",
                      data |-> << >>],
          events |-> << >>, leaked |-> FALSE]
    ELSE LET stmt == FirstStatementOf(query)
         IN  CASE db.kind = "connect_error" ->
                    [result |-> [success |-> FALSE, error |-> db.msg, data |-> << >>,
                                 query |-> stmt],
                     events |-> get_connection(db), leaked |-> FALSE]
               [] db.kind = "db_error" ->
                    [result |-> [success |-> FALSE, error |-> db.msg, data |-> << >>,
                                 query |-> stmt],
                     events |-> get_connection(db) \o <<[op |-> "execute", query |-> stmt]>>,
                     leaked |-> ~db.finalized]
               [] db.kind = "other_error" ->
                    [result |-> [success |-> FALSE, error |-> "Unexpected error: " \o db.msg,
                                 data |-> << >>, query |-> stmt],
                     events |-> get_connection(db) \o <<[op |-> "execute", query |-> stmt]>>,
                     leaked |-> ~db.finalized]
               [] db.kind = "rows" ->
                    LET data == LimitRows(EngineRows(db.n), max_rows)
                    IN  [result |-> [success |-> TRUE, data |-> data,
                                     row_count |-> Len(data), query |-> stmt],
                         events |-> get_connection(db)
                                    \o <<[op |-> "execute", query |-> stmt], [op |-> "close"]>>,
                         leaked |-> FALSE]

(***************************************************************************)
(* DatabaseHandler.get_schema                                              *)
(***************************************************************************)
RECURSIVE RenderColumns(_, _)
RenderColumns(columns, i) ==
    IF i > Len(columns) THEN ""
    ELSE "  - " \o columns[i].name \o ": " \o columns[i].type \o "\n"
         \o RenderColumns(columns, i + 1)

RECURSIVE RenderTables(_, _)
RenderTables(tables, i) ==
    IF i > Len(tables) THEN ""
    ELSE "\nTable: " \o tables[i].name \o "\n" \o RenderColumns(tables[i].columns, 1)
         \o RenderTables(tables, i + 1)

\* get_schema: the string returned or the error raised, the calls made, and
\* whether the connection it opened is still open when the call ends
get_schema(tables, db) ==
    CASE db.kind = "connect_error" ->
            [raised |-> TRUE, error |-> db.msg, events |-> get_connection(db),
             leaked |-> FALSE]
      [] db.kind \in {"db_error", "other_error"} ->
            [raised |-> TRUE, error |-> db.msg,
             events |-> get_connection(db) \o <<[op |-> "execute"]>>,
             leaked |-> TRUE]
      [] db.kind = "rows" ->
            [raised |-> FALSE, schema |-> RenderTables(tables, 1),
             events |-> get_connection(db) \o <<[op |-> "execute"], [op |-> "close"]>>,
             leaked |-> FALSE]

(***************************************************************************)
(* NL2SQLAgent._extract_sql_from_response                                  *)
(***************************************************************************)
\* StartsCollection without upper(): only upper-case SELECT and WITH count
StartsCollectionCaseSensitive(line) ==
    StartsWith(line, kwSELECT) \/ StartsWith(line, kwWITH)

\* line.upper().startswith(("SELECT", "WITH"))
StartsCollection(line) ==
    LET upper == Upper(line)
    IN  StartsWith(upper, kwSELECT) \/ StartsWith(upper, kwWITH)

\* the for loop over lines: sql_lines after lines[i..] have been visited
RECURSIVE CollectLines(_, _, _)
CollectLines(lines, i, sql_lines) ==
    IF i > Len(lines) THEN sql_lines
    ELSE LET line == Strip(lines[i])
         IN  IF line = << >> THEN CollectLines(lines, i + 1, sql_lines)
             ELSE IF StartsCollection(line)
                  THEN CollectLines(lines, i + 1, Append(sql_lines, line))
             ELSE IF sql_lines # << >>
                  THEN CollectLines(lines, i + 1, Append(sql_lines, line))
             ELSE CollectLines(lines, i + 1, sql_lines)

\* sql_lines as collected from the response
SqlLines(response) ==
    LET text  == Strip(Replace(Replace(response, FenceSql), Fence))
        lines == Split(text, "\n")
    IN  CollectLines(lines, 1, << >>)

\* FirstStatement without the cut: later statements stay in the candidate
FirstStatementUncut(sql_query) == sql_query

\* split(";")[0].strip() when a ";" is left in the text
FirstStatement(sql_query) ==
    IF Contains(sql_query, Semi) THEN Strip(Split(sql_query, ";")[1]) ELSE sql_query

\* sql_query after normalisation, before the final check
NormalizedSql(response) ==
    FirstStatement(Strip(RStripChar(Strip(Join(SqlLines(response), Space)), ";")))

\* the extractor without its final check: whatever was collected is returned
extract_sql_unchecked(response) == NormalizedSql(response)

extract_sql_from_response(response) ==
    LET sql_query == NormalizedSql(response)
    IN  IF sql_query # << >> /\ StartsWith(Upper(sql_query), kwSELECT)
        THEN sql_query
        ELSE None

(***************************************************************************)
(* NL2SQLAgent._load_additional_context                                    *)
(***************************************************************************)
\* the for loop over text.splitlines(): stripped lines, blank and "#" lines dropped
RECURSIVE KeepLines(_, _)
KeepLines(raw_lines, i) ==
    IF i > Len(raw_lines) THEN << >>
    ELSE LET line == Strip(raw_lines[i])
         IN  IF line = << >> THEN KeepLines(raw_lines, i + 1)
             ELSE IF StartsWith(line, <<"#">>) THEN KeepLines(raw_lines, i + 1)
             ELSE <<line>> \o KeepLines(raw_lines, i + 1)

\* Truncate with the slice one character too long
TruncateOneMore(text, max_chars) ==
    IF max_chars # 0 THEN SliceTo(text, max_chars + 1) ELSE text

\* lines 76-78: "if max_chars:" skips the slice when max_chars is 0
Truncate(text, max_chars) ==
    IF max_chars # 0 THEN SliceTo(text, max_chars) ELSE text

\* file: what the context path holds: [kind |-> "no_path" | "missing" |
\* "unreadable"] or [kind |-> "text", text |-> its content]
load_additional_context(file, max_chars) ==
    IF file.kind # "text" THEN << >>
    ELSE Strip(Truncate(Join(KeepLines(SplitLines(file.text), 1), Newline), max_chars))

(***************************************************************************)
(* NL2SQLAgent._create_prompt                                              *)
(***************************************************************************)
create_prompt(self, natural_language_query) ==
    [context_block |-> IF self.additional_context # << >>
                       THEN <<"Additional Context:", self.additional_context>>
                       ELSE << >>,
     schema |-> self.schema,
     question |-> natural_language_query]

(***************************************************************************)
(* NL2SQLAgent.query                                                       *)
(***************************************************************************)
\* config.MAX_ROWS_RETURN
MAX_ROWS_RETURN == 100

\* ExtractionFailed with the test left out: a missing candidate goes on to
\* the validator
ExtractionNeverFails(sql_query) == FALSE

\* line 191: "if not sql_query" (None or the empty string)
ExtractionFailed(sql_query) == sql_query = None \/ sql_query = << >>

\* Rejected with the verdict ignored: every candidate goes on to execution
RejectedNever(ok) == FALSE

\* line 202: "if not self.db_handler.validate_query(sql_query)"
Rejected(ok) == ~ok

\* the body of the try block.  api: what chat.completions.create does:
\* [kind |-> "raise", msg], [kind |-> "none"] (a message whose content is
\* None) or [kind |-> "text", text].  Gives the value returned or the
\* exception raised, the calls made, and the connection left open.
query_body(self, natural_language_query, api, db) ==
    LET prompt == create_prompt(self, natural_language_query)
        create == <<[op |-> "create", prompt |-> prompt]>>
    IN  CASE api.kind = "raise" ->
                [raised |-> TRUE, exc |-> api.msg, events |-> create, leaked |-> FALSE]
          [] api.kind = "none" ->
                [raised |-> TRUE, exc |-> "'NoneType' object has no attribute 'replace'",
                 events |-> create, leaked |-> FALSE]
          [] api.kind = "text" ->
                LET sql_query == extract_sql_from_response(api.text)
                    extract   == <<[op |-> "extract", ret |-> sql_query]>>
                IN  IF ExtractionFailed(sql_query)
                    THEN [raised |-> FALSE,
                          value |-> [success |-> FALSE,
                                     error |-> "Failed to generate valid SQL query",
                                     natural_language_query |-> natural_language_query],
                          events |-> create \o extract, leaked |-> FALSE]
                    ELSE LET ok == validate_query(sql_query)
                             validate == <<[op |-> "validate", query |-> sql_query,
                                            ret |-> ok]>>
                         IN  IF Rejected(ok)
                             THEN [raised |-> FALSE,
                                   value |-> [success |-> FALSE,
                                              error |-> "Generated query failed validation",
                                              query |-> sql_query,
                                              natural_language_query |-> natural_language_query],
                                   events |-> create \o extract \o validate,
                                   leaked |-> FALSE]
                             ELSE LET ex == execute_query(sql_query, MAX_ROWS_RETURN, db)
                                  IN  [raised |-> FALSE,
                                       value |-> [f \in DOMAIN ex.result
                                                       \cup {"natural_language_query"} |->
                                                  IF f = "natural_language_query"
                                                  THEN natural_language_query
                                                  ELSE ex.result[f]],
                                       events |-> create \o extract \o validate
                                                  \o <<[op |-> "execute_query",
                                                        query |-> sql_query]>>
                                                  \o ex.events,
                                       leaked |-> ex.leaked]

\* query without the try/except: what the body raises reaches the caller
query_uncaught(self, natural_language_query, api, db) ==
    query_body(self, natural_language_query, api, db)

\* the try/except around the body: "except Exception" turns every exception
\* into a failure dictionary
query(self, natural_language_query, api, db) ==
    LET body == query_body(self, natural_language_query, api, db)
    IN  IF body.raised
        THEN [raised |-> FALSE,
              value |-> [success |-> FALSE, error |-> "API error: " \o body.exc,
                         natural_language_query |-> natural_language_query],
              events |-> body.events, leaked |-> body.leaked]
        ELSE body

\* self_after_query with the schema dropped once a cycle has run
self_after_query_schema_dropped(self, r) == [self EXCEPT !.schema = ""]

\* the attributes of the agent when query returns: lines 164-234 assign to
\* none of them, and _create_prompt (lines 87-121) only reads them
self_after_query(self, r) == self

(***************************************************************************)
(* NL2SQLAgent.format_results                                              *)
(* A row is the dict built by dict(row): its (column, value) pairs in      *)
(* column order.  A value is an integer, None or a text.                   *)
(***************************************************************************)
sErrorPrefix == <<"E","r","r","o","r",":"," ">>
sUnknownError == <<"U","n","k","n","o","w","n"," ","e","r","r","o","r">>
sNoResults == <<"N","o"," ","r","e","s","u","l","t","s"," ","f","o","u","n","d",".">>
sFound == <<"\n","F","o","u","n","d"," ">>
sResults == <<" ","r","e","s","u","l","t","s",":","\n">>
sPipe == <<" ","|"," ">>
sAnd == <<"\n",".",".","."," ","a","n","d"," ">>
sMoreRows == <<" ","m","o","r","e"," ","r","o","w","s","\n">>

\* "-" * 80
RuleWidth == 80
Rule == [i \in 1..RuleWidth |-> "-"]

DigitChars == <<"0", "1", "2", "3", "4", "5", "6", "7", "8", "9">>

\* str() of a non-negative int
RECURSIVE Decimal(_)
Decimal(n) ==
    IF n < 10 THEN <<DigitChars[n + 1]>>
    ELSE Decimal(n \div 10) \o <<DigitChars[(n % 10) + 1]>>

\* str() of an int
IntStr(n) == IF n < 0 THEN <<"-">> \o Decimal(-n) ELSE Decimal(n)

\* str(row[col]) for the values SQLite hands back
str(value) ==
    CASE value.t = "int" -> IntStr(value.v)
      [] value.t = "None" -> None
      [] value.t = "text" -> value.v

\* list(row.keys())
Keys(row) == [i \in 1..Len(row) |-> row[i].key]

\* row[col]; every row of a result has the columns of the first, since all
\* come from one cursor
Item(row, col) == row[CHOOSE i \in 1..Len(row) : row[i].key = col].value

\* data[:10] taking one row more
ShownOneMore(data) == SliceTo(data, 11)

\* line 264: data[:10]
Shown(data) == SliceTo(data, 10)

\* the for loop over data[:10]: one pipe-joined line per row
RECURSIVE RenderRows(_, _, _)
RenderRows(rows, columns, i) ==
    IF i > Len(rows) THEN << >>
    ELSE Join([c \in 1..Len(columns) |-> str(Item(rows[i], columns[c]))], sPipe)
         \o Newline \o RenderRows(rows, columns, i + 1)

format_results(result) ==
    IF ~result.success
    THEN sErrorPrefix \o (IF "error" \in DOMAIN result THEN result.error
                          ELSE sUnknownError)
    ELSE LET data == IF "data" \in DOMAIN result THEN result.data ELSE << >>
         IN  IF data = << >> THEN sNoResults
             ELSE LET row_count == IF "row_count" \in DOMAIN result
                                   THEN result.row_count ELSE 0
                      columns   == Keys(data[1])
                  IN  sFound \o IntStr(row_count) \o sResults
                      \o Rule \o Newline
                      \o Join(columns, sPipe) \o Newline
                      \o Rule \o Newline
                      \o RenderRows(Shown(data), columns, 1)
                      \o (IF Len(data) > 10
                          THEN sAnd \o IntStr(Len(data) - 10) \o sMoreRows
                          ELSE << >>)
(***************************************************************************)
(* Inputs tried.                                                           *)
(***************************************************************************)
RECURSIVE Concat(_, _)
Concat(parts, i) ==
    IF i > Len(parts) THEN << >> ELSE parts[i] \o Concat(parts, i + 1)

\* all sequences of at most n elements of S
SeqsUpTo(S, n) == UNION {[1..k -> S] : k \in 0..n}

\* the queries of tests/test_agent.py
TestQueries == {tq1, tq2, tq3, tq4, tq5, tq6, tq7, tq8, tq9, tq10}

ValidatorLeads == {<< >>, vLead2, vLead3}
ValidatorHeads == {vHead1, vHead2, vHead3, vHead4, vHead5, vHead6}
ValidatorMids ==
    {vMid1, vMid2, vMid3, vMid4, vMid5, vMid6, vMid7, vMid8, vMid9, vMid10,
     vMid11, vMid12, vMid13}
ValidatorTails == {<< >>, vTail2, vTail3}

\* strings handed to validate_query
ValidatorQueries ==
    TestQueries
    \cup {lead \o head \o Concat(mids, 1) \o tail :
            lead \in ValidatorLeads, head \in ValidatorHeads,
            mids \in SeqsUpTo(ValidatorMids, MaxMid), tail \in ValidatorTails}

ResponseLines == {rl1, rl2, << >>, rl5, rl6, rl7, rl8, rl9, rl10, rl11}

\* responses named by the tests and by the scenarios of the specification
FixedResponses == {fx1, fx2, fx3, fx4, fx5}

\* text, opening fence, block content, closing fence, text
FencedResponses ==
    {pre \o open \o stmt \o Fence \o post :
        pre \in {<< >>, pre2, pre3, pre4, pre5}, open \in {FenceSql \o Newline, Fence},
        stmt \in {st1, st2, st3, st4, st5}, post \in {<< >>, post2, post3, post4}}

\* model responses handed to _extract_sql_from_response
Responses ==
    FixedResponses \cup FencedResponses
    \cup {Join(ls, Newline) : ls \in SeqsUpTo(ResponseLines, MaxLines)}

\* queries handed to execute_query directly
ExecQueries == {eq1, eq2, eq3, eq4, eq5, eq6, eq7, eq8}

ContextLines == {cl1, << >>, cl5, cl6, cl7, cl8}

\* the file of the scenario: "# ignore me / Prefer active users only. / # also ignore"
ScenarioFile == [kind |-> "text", text |-> Join(<<cl1, cl2, cl3>>, Newline)]

\* what the context path can hold
ContextFiles ==
    {[kind |-> k] : k \in {"no_path", "missing", "unreadable"}}
    \cup {ScenarioFile}
    \cup {[kind |-> "text", text |-> Join(ls, Newline)] :
            ls \in SeqsUpTo(ContextLines, MaxCtxLines)}

\* the default of config.LLM_CONTEXT_MAX_CHARS
LLM_CONTEXT_MAX_CHARS == 2000

\* values of the LLM_CONTEXT_MAX_CHARS environment variable
Budgets == (-1..MaxBudget) \cup {LLM_CONTEXT_MAX_CHARS}

Questions == {"list all users", "how many courses are there"}

\* what chat.completions.create can do
ApiOutcomes ==
    {[kind |-> "raise", msg |-> "Request timed out."], [kind |-> "none"]}
    \cup {[kind |-> "text", text |-> t] :
            t \in {fx3, fx4, fx5, rl8, tq1, vHead1 \o vMid2, rl7, eq6}}

\* sizes of the result sets the engine returns in a session
SessionRowCounts == {0, 2, MAX_ROWS_RETURN, MAX_ROWS_RETURN + 1}

\* the catalog of the database: tables with their columns, in catalog order
SessionCatalogs ==
    { <<[name |-> "users", columns |-> <<[name |-> "id", type |-> "INT"],
                                         [name |-> "name", type |-> "TEXT"]>>]>>,
      <<[name |-> "users", columns |-> <<[name |-> "id", type |-> "INT"]>>],
        [name |-> "courses", columns |-> <<[name |-> "title", type |-> "TEXT"]>>]>> }

SessionFiles == {ScenarioFile, [kind |-> "missing"]}

\* the second column of the rows tried: texts, the empty text, a text of two
\* lines and NULL
NameValues ==
    <<[t |-> "text", v |-> valJohn], [t |-> "text", v |-> valJane], [t |-> "None"],
      [t |-> "text", v |-> << >>], [t |-> "text", v |-> valTwoLines]>>

NameOf(i) == NameValues[((i - 1) % Len(NameValues)) + 1]

\* row i of a result set, for the three select lists tried
RowOf(i, layout) ==
    CASE layout = 1 -> <<[key |-> colId, value |-> [t |-> "int", v |-> i]]>>
      [] layout = 2 -> <<[key |-> colId, value |-> [t |-> "int", v |-> i]],
                         [key |-> colName, value |-> NameOf(i)]>>
      [] layout = 3 -> <<[key |-> colName, value |-> NameOf(i)],
                         [key |-> colId, value |-> [t |-> "int", v |-> 3 - i]]>>

DataOf(n, layout) == [i \in 1..n |-> RowOf(i, layout)]

\* result dictionaries handed to format_results: what query() returns, and
\* the dictionaries of tests/test_agent.py
FormatResults ==
    {[success |-> FALSE, error |-> e, natural_language_query |-> nlq1] :
        e \in {errExtract, errApi}}
    \cup {[success |-> FALSE, error |-> e, query |-> fq1,
           natural_language_query |-> nlq1] : e \in {errValidation, errNoSuchTable}}
    \cup {[success |-> FALSE, error |-> errQueryFailed], [success |-> FALSE],
          [success |-> TRUE]}
    \cup {[success |-> TRUE, data |-> DataOf(n, layout), row_count |-> n] :
            n \in 0..MaxData, layout \in 1..3}
    \cup {[success |-> TRUE, data |-> DataOf(n, layout), row_count |-> n,
           query |-> fq1, natural_language_query |-> nlq1] :
            n \in 0..MaxData, layout \in 1..3}
    \cup {[success |-> TRUE, data |-> DataOf(n, 1)] : n \in {1, MaxData}}

(***************************************************************************)
(* The session: main() constructs the agent once, then runs query cycles.  *)
(***************************************************************************)
\* the id a newly opened connection gets
NewConn == CHOOSE c \in 1..(MaxConns + 1) : c \notin open_conns

OpenAfter(leaked) == IF leaked THEN open_conns \cup {NewConn} ELSE open_conns

Init ==
    /\ agent = [state |-> "none"]
    /\ open_conns = {}
    /\ trace = << >>
    /\ call = [op |-> "start", done |-> TRUE]

\* NL2SQLAgent.__init__: _load_schema, then _load_additional_context
NewAgent ==
    /\ agent.state = "none"
    /\ \E tables \in SessionCatalogs, db \in ErrorOutcomes \cup RowOutcomes({0}),
          file \in SessionFiles, max_chars \in {LLM_CONTEXT_MAX_CHARS} :
          \E gs \in {get_schema(tables, db)} :
              /\ agent' = IF gs.raised THEN [state |-> "failed"]
                          ELSE [state |-> "ready", schema |-> gs.schema,
                                additional_context |->
                                    load_additional_context(file, max_chars)]
              /\ call' = [op |-> "NL2SQLAgent", done |-> TRUE, raised |-> gs.raised]
              /\ trace' = gs.events
              /\ open_conns' = OpenAfter(gs.leaked)

\* one cycle of the interactive loop: agent.query(user_query)
Query ==
    /\ agent.state = "ready"
    /\ Cardinality(open_conns) < MaxConns
    /\ \E q \in Questions, api \in ApiOutcomes,
          db \in ErrorOutcomes \cup RowOutcomes(SessionRowCounts) :
          \E r \in {query(agent, q, api, db)} :
              /\ call' = [op |-> "query", done |-> TRUE, natural_language_query |-> q,
                          api |-> api, raised |-> r.raised,
                          ret |-> IF r.raised THEN [exc |-> r.exc] ELSE r.value]
              /\ trace' = r.events
              /\ open_conns' = OpenAfter(r.leaked)
              /\ agent' = self_after_query(agent, r)

Next == NewAgent \/ Query

Spec == Init /\ [][Next]_vars

(***************************************************************************)
(* The handler and agent methods called on their own, as the tests do:     *)
(* the initial state holds the call with its arguments, the action runs it.*)
(***************************************************************************)
FnCalls ==
    {[op |-> "validate_query", query |-> s, done |-> FALSE] : s \in ValidatorQueries}
    \cup {[op |-> "extract_sql_from_response", response |-> r, done |-> FALSE] :
            r \in Responses}
    \cup {[op |-> "execute_query", query |-> s, max_rows |-> m, db |-> db,
           done |-> FALSE] :
            s \in ExecQueries, m \in 0..MaxRows,
            db \in ErrorOutcomes \cup RowOutcomes(0..(MaxRows + 2))}
    \cup {[op |-> "load_additional_context", file |-> f, max_chars |-> b,
           done |-> FALSE] :
            f \in ContextFiles, b \in Budgets}
    \cup {[op |-> "format_results", result |-> r, done |-> FALSE] :
            r \in FormatResults}

InitFn ==
    /\ agent = [state |-> "none"]
    /\ open_conns = {}
    /\ trace = << >>
    /\ call \in FnCalls

Pending(op) == call.op = op /\ ~call.done

\* call with the fields of rec added
Returned(rec) ==
    [f \in DOMAIN call \cup DOMAIN rec |->
        IF f \in DOMAIN rec THEN rec[f] ELSE call[f]]

CallValidateQuery ==
    /\ Pending("validate_query")
    /\ call' = Returned([done |-> TRUE, ret |-> validate_query(call.query)])
    /\ UNCHANGED <<agent, open_conns, trace>>

CallExtractSql ==
    /\ Pending("extract_sql_from_response")
    /\ call' = Returned([done |-> TRUE,
                         ret |-> extract_sql_from_response(call.response)])
    /\ UNCHANGED <<agent, open_conns, trace>>

CallExecuteQuery ==
    /\ Pending("execute_query")
    /\ \E ex \in {execute_query(call.query, call.max_rows, call.db)} :
           /\ call' = Returned([done |-> TRUE, ret |-> ex.result])
           /\ trace' = ex.events
           /\ open_conns' = OpenAfter(ex.leaked)
    /\ UNCHANGED agent

CallLoadContext ==
    /\ Pending("load_additional_context")
    /\ call' = Returned([done |-> TRUE,
                         ret |-> load_additional_context(call.file, call.max_chars)])
    /\ UNCHANGED <<agent, open_conns, trace>>

CallFormatResults ==
    /\ Pending("format_results")
    /\ call' = Returned([done |-> TRUE, ret |-> format_results(call.result)])
    /\ UNCHANGED <<agent, open_conns, trace>>

NextFn ==
    \/ CallValidateQuery
    \/ CallExtractSql
    \/ CallExecuteQuery
    \/ CallLoadContext
    \/ CallFormatResults

SpecFn == InitFn /\ [][NextFn]_vars

(***************************************************************************)
(* Properties of the session (checked under Spec).                         *)
(***************************************************************************)
QueryReturned == call.op = "query" /\ call.done

\* the positions of trace that hold a call of one of the ops
Events(ops) == {i \in 1..Len(trace) : trace[i].op \in ops}

\* the events execute_query and everything it does on the engine
ExecutionOps == {"execute_query", "connect", "connect_failed", "execute", "close"}

\* C1: in a query cycle, execute_query is called (and a connection opened,
\* a statement run) only after the extractor returned a candidate and
\* validate_query returned true for that same candidate; a cycle in which
\* extraction failed or validation rejected holds no execution at all.
ExecutedOnlyAfterValidation ==
    QueryReturned =>
        /\ \A i \in Events({"execute_query"}) :
              \E j \in Events({"extract"}), k \in Events({"validate"}) :
                 /\ j < k /\ k < i
                 /\ trace[j].ret # None
                 /\ trace[j].ret = trace[i].query
                 /\ trace[k].query = trace[i].query
                 /\ trace[k].ret = TRUE
        /\ \A i \in Events(ExecutionOps \ {"execute_query"}) :
              \E j \in Events({"execute_query"}) : j < i
        /\ (\/ \E j \in Events({"extract"}) : trace[j].ret = None
            \/ \E k \in Events({"validate"}) : trace[k].ret = FALSE)
           => Events(ExecutionOps) = {}

\* C1 witness: a cycle that validated a candidate and ran it on the engine
ValidatedQueryExecuted ==
    /\ QueryReturned
    /\ \E k \in Events({"validate"}), i \in Events({"execute"}) :
          trace[k].ret = TRUE /\ trace[i].query = trace[k].query

\* C4: every connection opened by execute_query or get_schema is closed by
\* the time the call returns or raises; after any sequence of cycles no
\* connection of an earlier cycle is still open.
NoConnectionLeftOpen == call.done => open_conns = {}

\* something failed in the cycle: the model call, extraction, validation or
\* the execution on the engine
CycleFailed ==
    \/ call.api.kind # "text"
    \/ \E j \in Events({"extract"}) : trace[j].ret = None
    \/ \E k \in Events({"validate"}) : trace[k].ret = FALSE
    \/ Events({"connect_failed"}) # {}
    \/ Events({"execute"}) # {} /\ Events({"close"}) = {}

\* C5: query never raises to its caller; whatever fails, it returns
\* success = false with an error string and the original question, and every
\* result, success or failure, carries the original question.
QueryNeverRaises ==
    QueryReturned =>
        /\ ~call.raised
        /\ call.ret.natural_language_query = call.natural_language_query
        /\ CycleFailed => /\ call.ret.success = FALSE
                          /\ "error" \in DOMAIN call.ret
                          /\ call.ret.error \in STRING
        /\ ~CycleFailed => call.ret.success = TRUE

\* C5 witness: the text-generation call raised and query returned a failure
ApiFailureReturned ==
    /\ QueryReturned
    /\ call.api.kind = "raise"
    /\ ~call.raised
    /\ call.ret.success = FALSE
    /\ call.ret.natural_language_query = call.natural_language_query

\* the model answered the text of the scenario: DROP TABLE users; SELECT 1
DropScenario == QueryReturned /\ call.api.kind = "text" /\ call.api.text = fx3

\* C6 as stated: for the model text DROP TABLE users; SELECT 1 the cycle ends
\* with the validator rejecting the candidate, error "Generated query failed
\* validation", and nothing is executed.
DropRejectedByValidator ==
    DropScenario =>
        /\ call.ret.success = FALSE
        /\ call.ret.error = "Generated query failed validation"
        /\ Events(ExecutionOps) = {}

\* C6 as amended: for that text the cycle ends at the extractor, which
\* returns no candidate: the result is success = false with error "Failed to
\* generate valid SQL query", the validator is never called and nothing is
\* executed.
DropRejectedByExtractor ==
    DropScenario =>
        /\ call.ret.success = FALSE
        /\ call.ret.error = "Failed to generate valid SQL query"
        /\ \A j \in Events({"extract"}) : trace[j].ret = None
        /\ Events({"validate"}) = {}
        /\ Events(ExecutionOps) = {}

\* C6 witness: a cycle on that text has ended
DropScenarioReturned == DropScenario /\ ~call.raised /\ Events({"extract"}) # {}

\* what the engine can do in one cycle of the session
SessionDbOutcomes == ErrorOutcomes \cup RowOutcomes(SessionRowCounts)

Min(a, b) == IF a < b THEN a ELSE b

\* the cycle that ends in the next state reached execution
ReachedExecution == \E i \in 1..Len(trace') : trace'[i].op = "execute_query"

\* db is an engine outcome that the result of the cycle can come from
FitsResult(db) ==
    IF db.kind = "rows"
    THEN call'.ret.success /\ call'.ret.row_count = Min(db.n, MAX_ROWS_RETURN)
    ELSE ~call'.ret.success
         /\ call'.ret.error \in {db.msg, "Unexpected error: " \o db.msg}

\* the step is a query cycle whose prompt, calls and result are those of the
\* agent as it stood before the cycle, the question and what the API and
\* the engine did in this cycle
CycleReadsOnlyAgent ==
    /\ call'.op = "query"
    /\ \E db \in SessionDbOutcomes :
          /\ ReachedExecution => FitsResult(db)
          /\ \E r \in {query(agent, call'.natural_language_query, call'.api, db)} :
                 /\ call'.ret = r.value
                 /\ trace' = r.events

\* C12: after the agent is initialized, no sequence of query cycles
\* (successful or failing) changes the loaded schema description or the
\* additional context: every step from a state with an initialized agent
\* leaves both as they were loaded at startup, and what the cycle sends,
\* calls and returns depends on nothing an earlier cycle left behind
\* (its calls, its result, a connection it left open).
SessionStateFixed ==
    [][agent.state = "ready" =>
          /\ agent'.state = "ready"
          /\ agent'.schema = agent.schema
          /\ agent'.additional_context = agent.additional_context
          /\ CycleReadsOnlyAgent]_vars

\* C12 witness: at least two cycles have run and failed, each leaving a
\* connection open, and the agent still holds the schema and the context
\* of the scenario file
FailingCyclesKeptAgent ==
    /\ call.op = "query"
    /\ call.done
    /\ ~call.ret.success
    /\ Cardinality(open_conns) >= 2
    /\ agent.state = "ready"
    /\ agent.schema # ""
    /\ agent.additional_context = cl2

(***************************************************************************)
(* Properties of the methods called on their own (checked under SpecFn).   *)
(***************************************************************************)
Done(op) == call.op = op /\ call.done

\* s[i..] begins with p, stated on slices
Occurs(s, p, i) == i + Len(p) - 1 <= Len(s) /\ SubSeq(s, i, i + Len(p) - 1) = p

\* the keywords the validator is specified to refuse
Denylist ==
    {kwINSERT, kwUPDATE, kwDELETE, kwDROP, kwALTER, kwCREATE, kwPRAGMA, kwATTACH,
     kwDETACH}

\* C2: validate_query(s) is true if and only if s, trimmed and uppercased,
\* starts with SELECT and contains none of INSERT, UPDATE, DELETE, DROP,
\* ALTER, CREATE, PRAGMA, ATTACH, DETACH as a substring anywhere.
ValidatorIsPrefixAndDenylist ==
    Done("validate_query") =>
        LET u == Upper(Strip(call.query))
        IN  call.ret = (/\ Occurs(u, kwSELECT, 1)
                        /\ \A kw \in Denylist : \A i \in 1..Len(u) : ~Occurs(u, kw, i))

\* C2 witness: a SELECT refused because an identifier (created_at) holds a
\* denylisted keyword
IdentifierKeywordRefused ==
    /\ Done("validate_query")
    /\ call.query = vHead1 \o vMid2
    /\ call.ret = FALSE

\* C3: a successful execute_query returns row_count equal to the length of
\* data and never above max_rows; n = max_rows + 1 rows give row_count =
\* max_rows; data is the first max_rows rows in the engine's order.
RowCountBounded ==
    (Done("execute_query") /\ call.ret.success) =>
        LET n    == call.db.n
            kept == IF n < call.max_rows THEN n ELSE call.max_rows
        IN  /\ call.ret.row_count = Len(call.ret.data)
            /\ call.ret.row_count <= call.max_rows
            /\ n = call.max_rows + 1 => call.ret.row_count = call.max_rows
            /\ Len(call.ret.data) = kept
            /\ \A i \in 1..kept : call.ret.data[i] = EngineRows(n)[i]

\* C3 witness: the engine returned max_rows + 1 rows and the call succeeded
OneRowOverLimit ==
    /\ Done("execute_query")
    /\ call.ret.success
    /\ call.max_rows > 0
    /\ call.db.n = call.max_rows + 1
    /\ call.ret.row_count = call.max_rows

(***************************************************************************)
(* The fenced block of a response, read off the raw text: the first fence  *)
(* marker opens it (a marker directly followed by sql is the language      *)
(* form), the next marker closes it.                                       *)
(***************************************************************************)
\* positions from lo on where a fence marker starts
FenceStarts(raw, lo) == {i \in lo..Len(raw) : Occurs(raw, Fence, i)}

Least(S) == CHOOSE i \in S : \A j \in S : i <= j

OpenAt(raw) == Least(FenceStarts(raw, 1))

ContentFrom(raw) ==
    IF Occurs(raw, FenceSql, OpenAt(raw)) THEN OpenAt(raw) + Len(FenceSql)
    ELSE OpenAt(raw) + Len(Fence)

HasFencedBlock(raw) ==
    FenceStarts(raw, 1) # {} /\ FenceStarts(raw, ContentFrom(raw)) # {}

CloseAt(raw) == Least(FenceStarts(raw, ContentFrom(raw)))

BlockContent(raw) == SubSeq(raw, ContentFrom(raw), CloseAt(raw) - 1)

BeforeBlock(raw) == SubSeq(raw, 1, OpenAt(raw) - 1)

AfterBlock(raw) == SubSeq(raw, CloseAt(raw) + Len(Fence), Len(raw))

NonBlank(line) == Strip(line) # << >>

\* the lines of a text, each trimmed, the blank ones dropped
TrimmedLines(text) ==
    LET kept == SelectSeq(Split(text, "\n"), NonBlank)
    IN  [i \in 1..Len(kept) |-> Strip(kept[i])]

\* a statement written on one line: its lines trimmed, joined by single spaces
OneLine(text) == Join(TrimmedLines(text), Space)

Digits == {"0", "1", "2", "3", "4", "5", "6", "7", "8", "9"}

\* SELECT ... LIMIT n: starts with SELECT, ends with LIMIT and a number,
\* holds no terminator and no fence character
IsSelectLimit(stmt) ==
    LET u == Upper(stmt)
    IN  /\ Occurs(u, kwSELECT, 1)
        /\ \A i \in 1..Len(stmt) : stmt[i] \notin {";", Backtick}
        /\ \E i \in 1..Len(u) :
              /\ Occurs(u, limitKw, i)
              /\ i + Len(limitKw) <= Len(u)
              /\ \A j \in (i + Len(limitKw))..Len(u) : u[j] \in Digits

\* a line opens the collection: trimmed, case-insensitively SELECT or WITH
OpensStatement(line) ==
    LET u == Upper(Strip(line))
    IN  Occurs(u, kwSELECT, 1) \/ Occurs(u, kwWITH, 1)

\* the response holds a fenced block whose content is a SELECT ... LIMIT n
FencedSelectLimit(raw) == HasFencedBlock(raw) /\ IsSelectLimit(OneLine(BlockContent(raw)))

BlockStandsAlone(raw) ==
    LET before == Split(BeforeBlock(raw), "\n")
    IN  /\ \A i \in 1..Len(before) : ~OpensStatement(before[i])
        /\ ~NonBlank(before[Len(before)])
        /\ ~NonBlank(AfterBlock(raw))

NoStatementLineGivesNone ==
    (/\ Done("extract_sql_from_response")
     /\ LET lines == Split(call.response, "\n")
        IN  \A i \in 1..Len(lines) :
               ~OpensStatement(Replace(Replace(lines[i], FenceSql), Fence))) =>
        call.ret = None

\* C8 witness: the apology of the tests gives no candidate
ApologyGivesNone ==
    /\ Done("extract_sql_from_response")
    /\ call.response = fx2
    /\ call.ret = None

\* positions of the statement terminator in a text
Terminators(text) == {i \in 1..Len(text) : text[i] = ";"}

\* the text holds a terminator followed by additional content
TerminatorThenContent(text) ==
    \E i \in Terminators(text) : \E j \in (i + 1)..Len(text) : ~IsSpace(text[j])

\* the text preceding the first terminator, trimmed
FirstStatementText(text) == Strip(SubSeq(text, 1, Least(Terminators(text)) - 1))

\* the query text of a response: its lines without fence markers, trimmed,
\* from the first line that opens a statement on, joined by single spaces
CollectedText(response) ==
    LET lines  == TrimmedLines(Replace(Replace(response, FenceSql), Fence))
        starts == {i \in 1..Len(lines) : OpensStatement(lines[i])}
    IN  IF starts = {} THEN << >>
        ELSE Join(SubSeq(lines, Least(starts), Len(lines)), Space)

\* C9: for every query text that holds a terminator followed by additional
\* content, execute_query hands the engine only the text preceding the first
\* terminator (surrounding whitespace aside), and the candidate the
\* extractor returns from its collected text is that same prefix; nothing
\* after the first terminator is executed or returned.
OnlyFirstStatementUsed ==
    /\ (Done("execute_query") /\ TerminatorThenContent(call.query)) =>
          /\ \A i \in 1..Len(trace) :
                trace[i].op = "execute" =>
                    Strip(trace[i].query) = FirstStatementText(call.query)
          /\ "query" \in DOMAIN call.ret =>
                Strip(call.ret.query) = FirstStatementText(call.query)
    /\ (/\ Done("extract_sql_from_response")
        /\ TerminatorThenContent(CollectedText(call.response))) =>
          \/ call.ret = None
          \/ call.ret = FirstStatementText(CollectedText(call.response))

\* C9 witness: SELECT 1; DROP TABLE users reached the engine as SELECT 1
SecondStatementDropped ==
    /\ Done("execute_query")
    /\ call.query = eq1
    /\ TerminatorThenContent(call.query)
    /\ \E i \in 1..Len(trace) :
          trace[i].op = "execute" /\ trace[i].query = SubSeq(eq1, 1, 8)

\* the kept lines of a context file, read off the text: trimmed lines that
\* are neither empty nor start with #, in file order, joined with newlines
IsContextLine(line) == NonBlank(line) /\ Strip(line)[1] # "#"

KeptContext(text) ==
    LET kept == SelectSeq(Split(text, "\n"), IsContextLine)
    IN  Join([i \in 1..Len(kept) |-> Strip(kept[i])], Newline)

\* the first n characters of a text, n >= 0
FirstChars(text, n) == SubSeq(text, 1, IF n < Len(text) THEN n ELSE Len(text))

\* no line of the text is blank or a comment
NoCommentOrBlankLine(text) ==
    text # << >> =>
        LET lines == Split(text, "\n")
        IN  \A i \in 1..Len(lines) : IsContextLine(lines[i])

ContextLoaded == Done("load_additional_context") /\ call.file.kind = "text"

\* C10 as stated: for every file content and every budget, the loaded
\* context is the kept lines joined with newlines and truncated to the
\* budget, so its length never exceeds the budget and it holds no comment
\* line and no blank line; the file of the scenario gives exactly
\* Prefer active users only.
ContextTruncatedToBudget ==
    (ContextLoaded /\ call.max_chars >= 0) =>
        /\ call.ret = FirstChars(KeptContext(call.file.text), call.max_chars)
        /\ Len(call.ret) <= call.max_chars
        /\ NoCommentOrBlankLine(call.ret)
        /\ (call.file = ScenarioFile /\ call.max_chars = LLM_CONTEXT_MAX_CHARS)
               => call.ret = cl2

\* C10 as amended: for every positive budget the loaded context is the kept
\* lines joined with newlines, truncated to the budget and then trimmed of
\* surrounding whitespace, so its length never exceeds the budget; a budget
\* of 0 switches truncation off; for every budget the result holds no
\* comment line and no blank line, and the file of the scenario gives
\* exactly Prefer active users only.
ContextTruncatedThenTrimmed ==
    ContextLoaded =>
        /\ call.max_chars > 0 =>
              /\ call.ret = Strip(FirstChars(KeptContext(call.file.text), call.max_chars))
              /\ Len(call.ret) <= call.max_chars
        /\ call.max_chars = 0 => call.ret = KeptContext(call.file.text)
        /\ NoCommentOrBlankLine(call.ret)
        /\ (call.file = ScenarioFile /\ call.max_chars = LLM_CONTEXT_MAX_CHARS)
               => call.ret = cl2

\* C10 witness: the budget cut the text right after a line break, and the
\* loaded context came out shorter than the budget
CutAtLineBreakTrimmed ==
    /\ ContextLoaded
    /\ call.max_chars > 0
    /\ Len(KeptContext(call.file.text)) > call.max_chars
    /\ Len(call.ret) < call.max_chars
    /\ Len(call.ret) > 0


\* the final normalized string of a response: the collected lines joined by
\* single spaces, the trailing terminator stripped, cut at the first
\* terminator
FinalText(response) ==
    LET joined == Strip(RStripChar(Strip(CollectedText(response)), ";"))
    IN  IF Terminators(joined) # {} THEN FirstStatementText(joined) ELSE joined

\* the final check: non-empty and starting, in any case, with SELECT
PassesFinalCheck(text) == text # << >> /\ Occurs(Upper(text), kwSELECT, 1)

\* collection started on a WITH line
StartedOnWith(response) == Occurs(Upper(CollectedText(response)), kwWITH, 1)

\* a common-table-expression form in which a SELECT materializes: the final
\* string opens with WITH and a SELECT follows the closing parenthesis of
\* its last table expression
SelectMaterializes(text) ==
    /\ Occurs(Upper(text), kwWITH, 1)
    /\ Contains(Upper(text), <<")", " ">> \o kwSELECT)

WithTextsRejected ==
    Done("extract_sql_from_response") =>
        LET final == FinalText(call.response)
        IN  /\ (call.ret # None) <=> PassesFinalCheck(final)
            /\ call.ret # None => call.ret = final
            /\ StartedOnWith(call.response) => call.ret = None

\* a common-table-expression form with its SELECT came back without a
\* candidate
CteFormRejected ==
    /\ Done("extract_sql_from_response")
    /\ call.response = rl7
    /\ SelectMaterializes(FinalText(call.response))
    /\ call.ret = None

(***************************************************************************)
(* Claims about format_results.                                            *)
(***************************************************************************)
FormatReturned == call.op = "format_results" /\ call.done

EndsWith(s, p) ==
    /\ Len(p) <= Len(s)
    /\ SubSeq(s, Len(s) - Len(p) + 1, Len(s)) = p

\* the data of a result, empty when the result has none
DataIn(result) == IF "data" \in DOMAIN result THEN result.data ELSE << >>

\* the values of a row, in column order, joined by " | "
PipeJoined(row) == Join([i \in 1..Len(row) |-> str(row[i].value)], sPipe)

\* the first n rows of data, one pipe-joined line each
RECURSIVE DataRows(_, _)
DataRows(data, n) ==
    IF n = 0 THEN << >>
    ELSE DataRows(data, n - 1) \o PipeJoined(data[n]) \o Newline

noteAnd == <<".", ".", ".", " ", "a", "n", "d", " ">>
noteMore == <<" ", "m", "o", "r", "e", " ", "r", "o", "w", "s">>

\* the line "... and k more rows", set off by an empty line
MoreRowsNote(k) == Newline \o noteAnd \o IntStr(k) \o noteMore \o Newline

\* text ends with a line of dashes; the text before that line
BeforeRule(text) ==
    IF text # << >> /\ text[Len(text)] = "\n"
    THEN RStripChar(SubSeq(text, 1, Len(text) - 1), "-")
    ELSE text

\* out is: some lines, the header line of the column names, a line of
\* dashes, then exactly the rows and nothing else but the note
TableOf(out, data, rows, note) ==
    LET tail   == rows \o note
        head   == SubSeq(out, 1, Len(out) - Len(tail))
        header == Join(Keys(data[1]), sPipe)
    IN  /\ EndsWith(out, tail)
        /\ Len(BeforeRule(head)) < Len(head) - 1
        /\ EndsWith(BeforeRule(head), Newline \o header \o Newline)

\* C11: for every result passed to format_results, a failure result renders
\* as Error: followed by its message; a success with empty data renders
\* as No results found.; otherwise the rendering has a header row of the
\* column names, exactly min(len(data), 10) pipe-joined data rows, and a
\* trailing ... and k more rows note if and only if more than 10 rows
\* exist, with k = len(data) - 10.
ResultsRendered ==
    FormatReturned =>
        LET result == call.result
            out    == call.ret
            data   == DataIn(result)
        IN  CASE ~result.success ->
                    /\ StartsWith(out, sErrorPrefix)
                    /\ "error" \in DOMAIN result => out = sErrorPrefix \o result.error
              [] result.success /\ data = << >> -> out = sNoResults
              [] OTHER ->
                    /\ TableOf(out, data, DataRows(data, Min(Len(data), 10)),
                               IF Len(data) > 10 THEN MoreRowsNote(Len(data) - 10)
                               ELSE << >>)
                    /\ Len(data) <= 10 => ~Contains(out, noteMore)

\* C11 witness: a result of more than 10 rows was rendered, with the note
\* counting the rows left out
MoreRowsNoted ==
    /\ FormatReturned
    /\ call.result.success
    /\ Len(DataIn(call.result)) = 11
    /\ EndsWith(call.ret, MoreRowsNote(1))

(***************************************************************************)
(* Claims about the text that reaches the engine.                          *)
(***************************************************************************)
\* positions in the trace of the statements handed to the engine
EngineCalls == {i \in 1..Len(trace) : trace[i].op = "execute"}

\* the candidate is trimmed and holds no terminator
TrimmedNoTerminator(text) == Strip(text) = text /\ Terminators(text) = {}

\* the text starts with SELECT and holds no denylisted keyword, in any case
SelectWithoutDenylisted(text) ==
    /\ Occurs(Upper(text), kwSELECT, 1)
    /\ \A kw \in Denylist : ~Contains(Upper(text), kw)

\* C14: in every query cycle that reaches execution, the statement text
\* handed to the database engine is character for character the text that
\* validate_query approved, which is the candidate the extractor returned:
\* that candidate is trimmed and contains no terminator, and the executed
\* statement starts (in any case) with SELECT and contains no denylisted
\* keyword.
ExecutedTextIsApprovedText ==
    QueryReturned =>
        \A i \in EngineCalls :
            \E k \in 1..(i - 1), j \in 1..(i - 1) :
                /\ k < j
                /\ trace[k].op = "extract"
                /\ trace[j].op = "validate"
                /\ trace[j].ret
                /\ trace[j].query = trace[k].ret
                /\ TrimmedNoTerminator(trace[k].ret)
                /\ trace[i].query = trace[j].query
                /\ SelectWithoutDenylisted(trace[i].query)

\* C14 witness: the model answered with two statements and surrounding
\* blanks, and the engine was handed the first one alone, as approved
FirstOfTwoStatementsExecuted ==
    /\ QueryReturned
    /\ call.api.kind = "text"
    /\ call.api.text = eq6
    /\ \E i \in EngineCalls : trace[i].query = <<"S", "E", "L", "E", "C", "T", " ", "a">>

=============================================================================
